---- MODULE Spec2Model ----
(***************************************************************************)
(* pkgcore pmerge (src/pkgcore/scripts/pmerge.py): the command's main()    *)
(* as a state machine.  One run of main is one behaviour: the options,     *)
(* the installed repository (vdb), the world set and the requested atoms   *)
(* are chosen in Init; the solver, the package operations (fetch, build,   *)
(* finish) and the user's answer to a prompt are collaborators whose       *)
(* outcome is chosen when the code calls them.                             *)
(*                                                                         *)
(* Left out of main: what it only writes (out.write, out.error, the        *)
(* formatter, the rendering of a failure; of the diagnostics about a       *)
(* failed op only the package they name is kept), the --debug branches, the*)
(* choice of source repositories and of the resolver class, and --newuse   *)
(* (which sets oneshot and rescans USE flags before the solver runs).      *)
(*                                                                         *)
(* Spec is a run of main; ResolveSpec is main up to the end of its resolve *)
(* loop, with fairness.  The module-level functions are also called on     *)
(* their own, on inputs main does not produce: WorldSetSpec                *)
(* (update_worldset), RenderSpec (display_failures), ParseSpec             *)
(* (parse_atom), SlotSpec (slotatom_if_slotted), and SetsSpec (add_sets   *)
(* of src/pkgcore/ebuild/portage_conf.py).                                 *)
(***************************************************************************)
EXTENDS Integers, Sequences, FiniteSets, TLC

(***************************************************************************)
(* Bounds of the model.                                                    *)
(***************************************************************************)
\* longest plan the solver hands back
MaxPlan == 2

\* a failure trace: the (pkg, steps) pairs after its frame, the steps of a
\* pair, and how deep sub-traces nest
MaxPairs == 1
MaxSteps == 2
MaxNest == 1

None == "None"

(***************************************************************************)
(* Packages, restrictions (atoms) and resolved operations.                 *)
(***************************************************************************)
Pkg(cat, name, ver, slot) == [cat |-> cat, name |-> name, ver |-> ver, slot |-> slot]

a1 == Pkg("dev", "a", "1", "0")
a2 == Pkg("dev", "a", "2", "0")
b1 == Pkg("dev", "b", "1", "0")

\* an installed package that is not real (package_is_real is false)
v1 == Pkg("virtual", "a", "1", "0")

\* the packages a plan may name, in their sort order (sorted() of the code)
PkgOrder == <<a1, a2, b1>>
Pkgs == {PkgOrder[i] : i \in 1..Len(PkgOrder)}

\* the packages that may be installed, in their sort order
InstalledOrder == PkgOrder \o <<v1>>

Rank(p) == CHOOSE i \in 1..Len(InstalledOrder) : InstalledOrder[i] = p

\* a restriction: every field is a value or None (unconstrained); a restriction
\* that names both category and package is an atom
Restrict(cat, name, ver, slot) ==
    [rcat |-> cat, rname |-> name, rver |-> ver, rslot |-> slot,
     kind |-> IF cat # None /\ name # None THEN "atom" ELSE "restriction"]

\* restriction.match(pkg)
Match(r, p) ==
    /\ r.rcat = None \/ r.rcat = p.cat
    /\ r.rname = None \/ r.rname = p.name
    /\ r.rver = None \/ r.rver = p.ver
    /\ r.rslot = None \/ r.rslot = p.slot

\* repo.match(restriction) / repo.itermatch(restriction)
RepoMatch(repo, r) == {p \in repo : Match(r, p)}

\* atom(key): the unversioned, unslotted atom of a package key
KeyAtom(cat, name) == Restrict(cat, name, None, None)

\* pkg.versioned_atom: "=cat/name-ver", which carries no slot
versioned_atom(p) == Restrict(p.cat, p.name, p.ver, None)

atomA == KeyAtom("dev", "a")
atomB == KeyAtom("dev", "b")

\* a resolved operation of the plan: desc is "add", "replace" or "remove"
Op(desc, pkg, old) == [desc |-> desc, pkg |-> pkg, old_pkg |-> old]

NoPkg == Pkg(None, None, None, None)

Ops ==
    { Op("add", a2, NoPkg), Op("add", b1, NoPkg),
      Op("replace", a2, a1), Op("remove", b1, NoPkg) }

RECURSIVE SeqsUpTo(_, _)
SeqsUpTo(S, n) ==
    IF n = 0 THEN {<<>>}
    ELSE LET shorter == SeqsUpTo(S, n - 1)
         IN  shorter \cup {Append(s, x) : s \in {t \in shorter : Len(t) = n - 1}, x \in S}

\* resolver_inst.state.ops(only_real=True): any plan of at most MaxPlan operations
Plans == SeqsUpTo(Ops, MaxPlan)

\* the source repositories (source_repos.combined)
SourceRepo == {a1, a2, b1}

(***************************************************************************)
(* slotatom_if_slotted(repos, checkatom).  found_slots is a tuple, so the  *)
(* first package found makes found_slots.update raise AttributeError.      *)
(***************************************************************************)
AttributeError == "AttributeError"

\* the result as [raised, value, scanned]: raised is None when the call
\* returns value; scanned tells whether the repos were matched
slotatom_if_slotted(repos, checkatom) ==
    IF checkatom.rslot = None \/ checkatom.rslot # "0"
    THEN [raised |-> None, value |-> checkatom, scanned |-> FALSE]
    ELSE IF RepoMatch(repos, checkatom) # {}
         THEN [raised |-> AttributeError, value |-> checkatom, scanned |-> TRUE]
         ELSE \* found_slots stays (), whose length is 0, not 1
              [raised |-> None, value |-> checkatom, scanned |-> TRUE]

(***************************************************************************)
(* The world set (a package set backed by a file): add, remove, flush.     *)
(***************************************************************************)
KeyError == "KeyError"

\* world_set.add(x): adding a member again changes nothing
WS_add(w, x) == w \cup {x}

\* world_set.remove(x): raises KeyError when x is no member
WS_remove(w, x) == [raised |-> IF x \in w THEN None ELSE KeyError, mem |-> w \ {x}]

\* an update_worldset that flushes after a remove that found nothing
update_worldset_FlushAlways(world_set, ws, x, remove) ==
    IF world_set = None THEN ws
    ELSE IF remove
         THEN [mem |-> WS_remove(ws.mem, x).mem, disk |-> WS_remove(ws.mem, x).mem,
               calls |-> ws.calls \cup {"remove", "flush"}]
         ELSE [mem |-> WS_add(ws.mem, x), disk |-> WS_add(ws.mem, x),
               calls |-> ws.calls \cup {"add", "flush"}]

\* an update_worldset whose add drops a restriction the set holds already
update_worldset_Toggle(world_set, ws, x, remove) ==
    IF world_set = None THEN ws
    ELSE IF remove \/ x \in ws.mem
         THEN IF WS_remove(ws.mem, x).raised = KeyError
              THEN [ws EXCEPT !.calls = @ \cup {"remove"}]
              ELSE [mem |-> WS_remove(ws.mem, x).mem, disk |-> WS_remove(ws.mem, x).mem,
                    calls |-> ws.calls \cup {"remove", "flush"}]
         ELSE [mem |-> WS_add(ws.mem, x), disk |-> WS_add(ws.mem, x),
               calls |-> ws.calls \cup {"add", "flush"}]

\* an update_worldset that leaves the flush of an add to a later call
update_worldset_NoFlush(world_set, ws, x, remove) ==
    IF world_set = None THEN ws
    ELSE IF remove
         THEN IF WS_remove(ws.mem, x).raised = KeyError
              THEN [ws EXCEPT !.calls = @ \cup {"remove"}]
              ELSE [mem |-> WS_remove(ws.mem, x).mem, disk |-> WS_remove(ws.mem, x).mem,
                    calls |-> ws.calls \cup {"remove", "flush"}]
         ELSE [mem |-> WS_add(ws.mem, x), disk |-> ws.disk,
               calls |-> ws.calls \cup {"add"}]

\* update_worldset(world_set, pkg, remove): the world set object after the
\* call, as [mem, disk, calls] (calls: the methods invoked on it so far)
update_worldset(world_set, ws, x, remove) ==
    IF world_set = None THEN ws
    ELSE IF remove
         THEN IF WS_remove(ws.mem, x).raised = KeyError
              THEN \* nothing to remove, thus skip the flush
                   [ws EXCEPT !.calls = @ \cup {"remove"}]
              ELSE [mem |-> WS_remove(ws.mem, x).mem, disk |-> WS_remove(ws.mem, x).mem,
                    calls |-> ws.calls \cup {"remove", "flush"}]
         ELSE [mem |-> WS_add(ws.mem, x), disk |-> WS_add(ws.mem, x),
               calls |-> ws.calls \cup {"add", "flush"}]

\* what update_worldset raises: the KeyError of remove is caught, and nothing
\* else the set raises here
update_worldset_raises(world_set, ws, x, remove) ==
    IF world_set # None /\ remove /\ WS_remove(ws.mem, x).raised \notin {None, KeyError}
    THEN WS_remove(ws.mem, x).raised
    ELSE None

(***************************************************************************)
(* Options, as argparse and _validate leave them.                          *)
(***************************************************************************)
atomZ == KeyAtom("dev", "z")

\* what the user asked for: the atoms of the sets given with -s, and the
\* target tokens
Requests ==
    { [set |-> <<>>, targets |-> <<atomA>>],
      [set |-> <<atomB>>, targets |-> <<atomA>>],
      [set |-> <<>>, targets |-> <<atomZ>>] }

\* requests of the unmerge mode with two restrictions, the second of which
\* matches no installed package, or installed packages of two categories
UnmergeRequests ==
    { [set |-> <<>>, targets |-> <<atomA, atomZ>>],
      [set |-> <<>>, targets |-> <<atomB, Restrict(None, "a", None, None)>>] }

\* _validate: the combinations the parser accepts (clean takes no set and no
\* target: its sets are world and system, read when main starts)
_validate(o) ==
    /\ o.unmerge => /\ o.req.set = <<>>
                    /\ ~o.upgrade
                    /\ o.req.targets # <<>>
                    /\ ~o.clean
    /\ o.clean => o.req = [set |-> <<>>, targets |-> <<>>]
    /\ ~o.clean => (o.req.targets # <<>> \/ o.req.set # <<>>)

\* options no line of the mode reads are left at their default
ReadByMode(o) ==
    /\ (o.unmerge \/ o.clean) => (~o.fetchonly /\ ~o.upgrade)
    /\ ~(o.unmerge \/ o.clean) => ~o.force

CleanRequest == [set |-> <<>>, targets |-> <<>>]

ValidOptions ==
    {o \in [unmerge : BOOLEAN, clean : BOOLEAN, pretend : BOOLEAN, ask : BOOLEAN,
            ignore_failures : BOOLEAN, fetchonly : BOOLEAN, oneshot : BOOLEAN,
            upgrade : BOOLEAN, force : BOOLEAN,
            req : Requests \cup UnmergeRequests \cup {CleanRequest}] :
        _validate(o) /\ ReadByMode(o) /\ (o.req \in UnmergeRequests => o.unmerge)}

\* the world files a run may start from
InitialWorlds == { {}, {versioned_atom(a1), versioned_atom(b1)} }

\* the system set of the profile
SystemSet == <<atomB>>

\* list(pkgset) of a set of restrictions: its members in a fixed order
RECURSIVE SetToSeq(_)
SetToSeq(S) ==
    IF S = {} THEN <<>>
    ELSE LET x == CHOOSE y \in S : TRUE
         IN  <<x>> \o SetToSeq(S \ {x})

\* stable_unique(l): l without the later duplicates
RECURSIVE stable_unique(_)
stable_unique(l) ==
    IF l = <<>> THEN <<>>
    ELSE LET front == stable_unique(SubSeq(l, 1, Len(l) - 1))
             last == l[Len(l)]
         IN  IF \E i \in 1..Len(front) : front[i] = last
             THEN front ELSE Append(front, last)

(***************************************************************************)
(* parse_atom(restriction, repo, livefs_repos)                             *)
(***************************************************************************)
Key(p) == [cat |-> p.cat, name |-> p.name]

\* packages.KeyedAndRestriction(restriction, key=key)
KeyedAndRestriction(r, key) ==
    [r EXCEPT !.rcat = key.cat, !.rname = key.name, !.kind = "keyed"]

\* the package keys in their sort order (they sort as the strings "cat/name")
KeyOrder ==
    << [cat |-> "dev", name |-> "a"], [cat |-> "dev", name |-> "b"],
       [cat |-> "dev", name |-> "z"], [cat |-> "net", name |-> "a"],
       [cat |-> "virtual", name |-> "a"] >>

KeyRank(k) == CHOOSE i \in 1..Len(KeyOrder) : KeyOrder[i] = k

\* sorted(key_matches)
RECURSIVE SortedKeys(_)
SortedKeys(S) ==
    IF S = {} THEN <<>>
    ELSE LET first == CHOOSE x \in S : \A y \in S : KeyRank(x) <= KeyRank(y)
         IN  <<first>> \o SortedKeys(S \ {first})

\* a scan of the repo that skips the virtual category, as the scan of the
\* installed packages does
key_matches_Real(restriction, repo) ==
    {Key(x) : x \in {y \in RepoMatch(repo, restriction) : y.cat # "virtual"}}

\* set(x.key for x in repo.itermatch(restriction))
key_matches(restriction, repo) == {Key(x) : x \in RepoMatch(repo, restriction)}

\* a scan of the installed packages that keeps the virtual category
installed_matches_WithVirtual(restriction, livefs_repos) ==
    {Key(x) : x \in RepoMatch(livefs_repos, restriction)}

\* set(x.key for x in livefs_repos.itermatch(restriction) if x.category != 'virtual')
installed_matches(restriction, livefs_repos) ==
    {Key(x) : x \in {y \in RepoMatch(livefs_repos, restriction) : y.cat # "virtual"}}

\* a token is narrowed by the installed repos as well
ScansInstalled_Always(keys) == keys # {}

\* elif len(key_matches) > 1: only then are the installed repos matched
ScansInstalled(keys) == Cardinality(keys) > 1

\* the result as [raised, value, keys, scanned, isNone]: the restriction
\* returned, or the exception raised and, for AmbiguousQuery, its keys; the
\* repos matched; whether None was returned, which no path does (return_none
\* is not read)
parse_atom(restriction, repo, livefs_repos) ==
    LET keys == key_matches(restriction, repo)
        installed == installed_matches(restriction, livefs_repos)
    IN  IF keys = {}
        THEN [raised |-> "NoMatches", value |-> restriction, keys |-> <<>>,
              scanned |-> <<"repo">>,
              isNone |-> FALSE]
        ELSE IF ScansInstalled(keys)
        THEN IF Cardinality(installed) = 1
             THEN [raised |-> None,
                   value |-> LET k == CHOOSE k \in installed : TRUE
                             IN  KeyAtom(k.cat, k.name),
                   keys |-> <<>>, scanned |-> <<"repo", "livefs_repos">>,
                   isNone |-> FALSE]
             ELSE [raised |-> "AmbiguousQuery", value |-> restriction,
                   keys |-> SortedKeys(keys),
                   scanned |-> <<"repo", "livefs_repos">>,
                   isNone |-> FALSE]
        ELSE IF restriction.kind = "atom"
        THEN [raised |-> None, value |-> restriction, keys |-> <<>>,
              scanned |-> <<"repo">>,
              isNone |-> FALSE]
        ELSE [raised |-> None,
              value |-> KeyedAndRestriction(restriction, CHOOSE k \in keys : TRUE),
              keys |-> <<>>, scanned |-> <<"repo">>,
              isNone |-> FALSE]

(***************************************************************************)
(* The state of one run of main.                                           *)
(***************************************************************************)
VARIABLES
    options,      \* the parsed command line
    world_file,   \* options.world: "world", or None when the configuration has none
    world_set,    \* main's world_set: world_file, or None
    world,        \* the world set object: [mem, disk, calls]
    world0,       \* the world set's members when the run started
    vdb,          \* the installed packages
    frozen,       \* vdb.frozen
    atoms,        \* main's atoms
    failures,     \* main's failures
    plan,         \* changes: the solver's plan
    pc,           \* where main is
    exit,         \* what main returned or raised, None while it runs
    count,        \* the executor loop's position in the plan (0 before the loop)
    op,           \* the executor loop's op
    cleanup,      \* the cleanup list
    pkg,          \* the executor loop's pkg
    run,          \* the calls made for the current op, their results, how it ended
    unfired,      \* cleanup entries put on the list and not invoked so far
    refired,      \* whether some cleanup entry was invoked twice
    faulted,      \* whether some call of the run reported a failure
    matches,      \* do_unmerge's matches
    idx,          \* do_unmerge's position in matches
    solver,       \* the methods main has called on resolver_inst, in order
    call,         \* a function called on its own: its arguments and its result
    answer,       \* what formatter.ask returned: "yes", "no", None when not asked
    diag          \* the package named by the diagnostic written for the current
                  \* op or match about its failure, NoPkg when none was written

vars == <<options, world_file, world_set, world, world0, vdb, frozen, atoms,
          failures, plan, pc, exit, count, op, cleanup, pkg, run, unfired,
          refired, faulted, matches, idx, solver, call, answer, diag>>

NoOp == Op(None, NoPkg, NoPkg)

\* nothing called yet for the current op
NoRun == [fetch |-> None, build |-> None, localize |-> None, apply |-> None,
          finish |-> None, world |-> None, end |-> None]

\* no function has been called on its own
NoCall == [fn |-> None]

\* the installed packages a run starts from
InitialVdb == {a1, b1, v1}

Init ==
    /\ options \in ValidOptions
    /\ world_file \in {"world", None}
    /\ world_set = None
    /\ world0 \in InitialWorlds
    /\ world = [mem |-> world0, disk |-> world0, calls |-> {}]
    /\ vdb = InitialVdb
    /\ frozen \in (IF options.unmerge \/ options.clean THEN BOOLEAN ELSE {FALSE})
    /\ atoms = <<>>
    /\ failures = <<>>
    /\ plan = <<>>
    /\ pc = "start"
    /\ exit = None
    /\ count = 0
    /\ op = NoOp
    /\ cleanup = <<>>
    /\ pkg = NoPkg
    /\ run = NoRun
    /\ unfired = {}
    /\ refired = FALSE
    /\ faulted = FALSE
    /\ matches = <<>>
    /\ idx = 0
    /\ solver = <<>>
    /\ call = NoCall
    /\ answer = None
    /\ diag = NoPkg

\* main returns (or raises) code
Return(code) == pc' = "done" /\ exit' = code

\* a run that goes on whether pretend was given or not
Pretends_Never == FALSE

\* "if options.pretend:" in unmerge, in the clean mode and before the merge:
\* the run lists what it would do and returns
Pretends == options.pretend

(***************************************************************************)
(* main, up to the solver.                                                 *)
(***************************************************************************)
\* a main that keeps the world set under oneshot
WorldSetAtStart_Always == world_file

\* world_set as main sets it before anything else
WorldSetAtStart == IF options.oneshot THEN None ELSE world_file

Main_Start ==
    /\ pc = "start"
    /\ world_set' = WorldSetAtStart
    /\ IF options.unmerge
       THEN IF ~options.oneshot /\ world_set' = None
            THEN Return("1")
            ELSE pc' = "unmerge" /\ exit' = exit
       ELSE pc' = "atoms" /\ exit' = exit
    /\ UNCHANGED <<diag, answer, call, solver, options, world_file, world, world0, vdb, frozen, atoms, failures,
                   plan, count, op, cleanup, pkg, run, unfired, refired, matches, idx,
                   faulted>>

\* options.set: the pkgsets given; a pkgset is None (isNone) when the
\* configuration has no such set.  _validate makes it world and system for clean
OptionSets ==
    IF options.clean
    THEN << [isNone |-> world_file = None, members |-> SetToSeq(world.mem)],
            [isNone |-> FALSE, members |-> SystemSet] >>
    ELSE IF options.req.set = <<>> THEN <<>>
         ELSE << [isNone |-> FALSE, members |-> options.req.set] >>

RECURSIVE ConcatAll(_)
ConcatAll(ss) == IF ss = <<>> THEN <<>> ELSE ss[1].members \o ConcatAll(Tail(ss))

\* config.pkgset: the tokens that are the name of a configured package set
config_pkgset == {atomZ}

\* the body of "for token in options.targets" for one token: what main
\* returns there, or None when the loop goes on (parse_atom raised a
\* ParseError: 1; it returned None: 2 for the name of a set, else the token
\* is skipped, or -1 with ignore_failures)
TokenReturns(a, token) ==
    IF a.raised # None THEN "1"
    ELSE IF a.isNone
         THEN IF token \in config_pkgset THEN "2"
              ELSE IF ~options.ignore_failures THEN None ELSE "-1"
         ELSE None

Main_Atoms ==
    /\ pc = "atoms"
    /\ LET targets == options.req.targets
           parsed == [i \in 1..Len(targets) |-> parse_atom(targets[i], SourceRepo, vdb)]
           stops == {i \in 1..Len(targets) : TokenReturns(parsed[i], targets[i]) # None}
           first == CHOOSE i \in stops : \A j \in stops : i <= j
           appended == SelectSeq(parsed, LAMBDA a : ~a.isNone)
           from_sets == ConcatAll(OptionSets)
           all == stable_unique(from_sets \o [i \in 1..Len(appended) |-> appended[i].value])
       IN  IF \E i \in 1..Len(OptionSets) : OptionSets[i].isNone
           THEN Return("1") /\ atoms' = atoms
           ELSE IF stops # {}
           THEN Return(TokenReturns(parsed[first], targets[first])) /\ atoms' = atoms
           ELSE IF all = <<>>
           THEN Return("1") /\ atoms' = atoms
           ELSE IF (OptionSets = <<>> \/ options.clean) /\ ~options.oneshot
                   /\ world_set = None
           THEN Return("1") /\ atoms' = all
           ELSE pc' = "resolve" /\ exit' = exit /\ atoms' = all
    /\ solver' = IF pc' = "resolve" THEN <<"add_atoms">> ELSE solver
    /\ UNCHANGED <<diag, answer, call, options, world_file, world_set, world, world0, vdb, frozen,
                   failures, plan, count, op, cleanup, pkg, run, unfired, refired,
                   matches, idx, faulted>>

(***************************************************************************)
(* The resolve loop: add_atoms, and reset and retry under ignore-failures. *)
(***************************************************************************)
\* add_atoms returned no failure: the solver's state holds a plan; its caches
\* are freed once the loop is left
AddAtomsOk ==
    /\ pc = "resolve"
    /\ \E p \in Plans : plan' = p
    /\ pc' = (IF options.clean THEN "clean" ELSE "sanity")
    /\ exit' = exit
    /\ solver' = Append(solver, "free_caches")
    /\ UNCHANGED <<diag, answer, call, options, world_file, world_set, world, world0, vdb, frozen, atoms,
                   failures, count, op, cleanup, pkg, run, unfired, refired, matches,
                   idx, faulted>>

\* ret[0][0] of a failed add_atoms(l): the solver reports one of the
\* restrictions it was asked to add
FailingRestrictions(l) == {l[i] : i \in 1..Len(l)}

\* a loop that retries whatever the options say
Retries_Always == TRUE

\* "if not options.ignore_failures: break"
Retries == options.ignore_failures

\* a retry with the list as it was
AtomsWithout_Kept(restrict) == atoms

\* atoms = [x for x in atoms if x != restrict]
AtomsWithout(restrict) == SelectSeq(atoms, LAMBDA x : x # restrict)

\* a retry on the solver as the failed call left it
ResetAndRetry_NoReset == <<"add_atoms">>

\* resolver_inst.reset(), then ret = resolver_inst.add_atoms(atoms, finalize=True)
ResetAndRetry == <<"reset", "add_atoms">>

\* add_atoms returned a failure for restrict: one pass of the while loop, or
\* the break out of it and the return 1 of the report on failures
AddAtomsFail ==
    /\ pc = "resolve"
    /\ \E restrict \in FailingRestrictions(atoms) :
            /\ failures' = Append(failures, restrict)
            /\ faulted' = TRUE
            /\ IF ~Retries
               THEN Return("1") /\ UNCHANGED <<atoms, solver>>
               ELSE /\ atoms' = AtomsWithout(restrict)
                    /\ solver' = solver \o ResetAndRetry
                    /\ pc' = "resolve" /\ exit' = exit
    /\ UNCHANGED <<diag, answer, call, options, world_file, world_set, world, world0, vdb, frozen, plan,
                   count, op, cleanup, pkg, run, unfired, refired,
                   matches, idx>>

(***************************************************************************)
(* The sanity checks and the confirmation gate of merge mode.              *)
(***************************************************************************)
SanityChecks ==
    /\ pc = "sanity"
    /\ \E passed \in BOOLEAN :
        IF ~passed THEN Return("1")
        ELSE IF plan = <<>> THEN Return(None)
        ELSE IF Pretends THEN Return(None)
        ELSE pc' = (IF options.ask THEN "ask" ELSE "loop") /\ exit' = exit
    /\ UNCHANGED <<diag, answer, call, solver, options, world_file, world_set, world, world0, vdb, frozen, atoms,
                   failures, plan, count, op, cleanup, pkg, run, unfired, refired,
                   matches, idx, faulted>>

\* formatter.ask("Would you like to merge these packages?")
AskMerge ==
    /\ pc = "ask"
    /\ \E yes \in BOOLEAN :
        /\ answer' = (IF yes THEN "yes" ELSE "no")
        /\ IF yes THEN pc' = "loop" /\ exit' = exit ELSE Return(None)
    /\ UNCHANGED <<diag, call, solver, options, world_file, world_set, world, world0, vdb, frozen, atoms,
                   failures, plan, count, op, cleanup, pkg, run, unfired, refired,
                   matches, idx, faulted>>

(***************************************************************************)
(* The merge executor: the loop over the plan.                             *)
(***************************************************************************)
\* a cleanup entry: the callable f put on the list while processing op k
Entry(k, f) == [k |-> k, f |-> f]

SeqToSet(q) == {q[i] : i \in 1..Len(q)}

\* a loop that resets the list without invoking its entries
UnfiredAfter_Kept(list) == unfired

\* for func in cleanup: func()
\* the entries not invoked so far, once every entry of list has been invoked
UnfiredAfter(list) == unfired \ SeqToSet(list)

\* whether invoking list invokes some entry a second time
RefiredBy(list) ==
    \/ \E i \in 1..Len(list) : list[i] \notin unfired
    \/ \E i, j \in 1..Len(list) : i # j /\ list[i] = list[j]

Drain(list) == refired' = (refired \/ RefiredBy(list))

\* a loop that walks the plan from its end
NextOp_Reversed == plan[Len(plan) - count]

\* for count, op in enumerate(changes): the op the loop takes next
NextOp == plan[count + 1]

\* the next op of the plan: the list of the previous op is drained and reset
LoopNext ==
    /\ pc = "loop"
    /\ count < Len(plan)
    /\ Drain(cleanup)
    /\ count' = count + 1
    /\ op' = NextOp
    /\ run' = NoRun
    /\ pkg' = NoPkg
    /\ diag' = NoPkg
    /\ IF NextOp.desc # "remove"
       THEN /\ cleanup' = <<Entry(count + 1, "op.pkg.release_cached_data")>>
            /\ unfired' = UnfiredAfter(cleanup)
                            \cup {Entry(count + 1, "op.pkg.release_cached_data")}
            /\ pc' = "fetch"
       ELSE /\ cleanup' = <<>>
            /\ unfired' = UnfiredAfter(cleanup)
            /\ pc' = "apply"
    /\ UNCHANGED <<answer, call, solver, options, world_file, world_set, world, world0, vdb, frozen, atoms,
                   failures, plan, exit, matches, idx, faulted>>

\* continue: on to the next op, the list left as it is (how: why, kept in run)
Continue(how) == pc' = "loop" /\ exit' = exit

\* a failure that skips the op whatever the options say
FailOp_Continue(how) == Continue(how)

\* a failure that ends the run whatever the options say
FailOp_Abort(how) == Return("1")

\* return 1 unless ignore-failures, which skips the op
FailOp(how) ==
    IF ~options.ignore_failures
    THEN Return("1")
    ELSE Continue(how)

\* "if not ret": an exception caught from the fetch counts as success
FetchFailed_Truthy(ret) == ret = "False"

\* if ret is not True: the fetch returned False or raised
FetchFailed(ret) == ret # "True"

\* pkg_ops.run_if_supported("fetch", or_return=True)
Fetch ==
    /\ pc = "fetch"
    /\ \E ret \in {"True", "False", "Exception"} :
        /\ run' = [run EXCEPT !.fetch = ret,
                              !.end = IF FetchFailed(ret) THEN "fetch failed"
                                      ELSE IF options.fetchonly THEN "fetched" ELSE None]
        /\ faulted' = (faulted \/ ret # "True")
        \* commandline.dump_error(out, ret, "fetching failed for ...")
        /\ diag' = IF FetchFailed(ret) THEN op.pkg ELSE diag
        /\ IF FetchFailed(ret) THEN FailOp("fetch failed")
           ELSE IF options.fetchonly THEN Continue("fetched")
           ELSE pc' = "build" /\ exit' = exit
    /\ UNCHANGED <<answer, call, solver, options, world_file, world_set, world, world0, vdb, frozen, atoms,
                   failures, plan, count, op, cleanup, pkg, unfired, refired, matches, idx>>

\* what buildop.finalize() leaves on the list, and the post-operation cleanup
BuiltEntries(k) ==
    <<Entry(k, "pkg.release_cached_data"), Entry(k, "buildop.cleanup")>>

\* pkg_ops.run_if_supported("build", or_return=None) and buildop.finalize()
Build ==
    /\ pc = "build"
    /\ \E result \in {"unsupported", "built", "False", "format.errors"} :
        /\ run' = [run EXCEPT !.build = result,
                              !.end = IF result \in {"False", "format.errors"}
                                      THEN "build failed" ELSE None]
        /\ faulted' = (faulted \/ result \in {"False", "format.errors"})
        \* out.error("caught exception building ..."), out.error("failed building ...")
        /\ diag' = IF result \in {"False", "format.errors"} THEN op.pkg ELSE diag
        /\ IF result \in {"False", "format.errors"}
           THEN /\ FailOp("build failed")
                /\ UNCHANGED <<cleanup, unfired, pkg>>
           ELSE /\ pc' = "localize" /\ exit' = exit
                /\ pkg' = op.pkg
                /\ LET added == (IF result = "built" THEN BuiltEntries(count) ELSE <<>>)
                                  \o <<Entry(count, "pkg_ops.cleanup")>>
                   IN  /\ cleanup' = cleanup \o added
                       /\ unfired' = unfired \cup SeqToSet(added)
    /\ UNCHANGED <<answer, call, solver, options, world_file, world_set, world, world0, vdb, frozen, atoms,
                   failures, plan, count, op, refired, matches, idx>>

\* pkg_ops.run_if_supported("localize", or_return=pkg)
Localize ==
    /\ pc = "localize"
    /\ run' = [run EXCEPT !.localize = "localized"]
    /\ pc' = "apply"
    /\ UNCHANGED <<diag, answer, call, solver, options, world_file, world_set, world, world0, vdb, frozen, atoms,
                   failures, plan, exit, count, op, cleanup, pkg, unfired, refired,
                   matches, idx, faulted>>

\* domain.replace_pkg, domain.install_pkg or domain.uninstall_pkg
Apply ==
    /\ pc = "apply"
    /\ run' = [run EXCEPT !.apply =
                 IF op.desc = "remove" THEN "uninstall_pkg"
                 ELSE IF op.desc = "replace" THEN "replace_pkg" ELSE "install_pkg"]
    /\ IF op.desc = "replace"
       THEN /\ cleanup' = Append(cleanup, Entry(count, "op.old_pkg.release_cached_data"))
            /\ unfired' = unfired \cup {Entry(count, "op.old_pkg.release_cached_data")}
       ELSE UNCHANGED <<cleanup, unfired>>
    /\ pc' = "finish"
    /\ UNCHANGED <<diag, answer, call, solver, options, world_file, world_set, world, world0, vdb, frozen, atoms,
                   failures, plan, exit, count, op, pkg, refired,
                   matches, idx, faulted>>

\* the installed packages once the op has been committed
Committed(o) ==
    IF o.desc = "remove" THEN vdb \ {o.pkg}
    ELSE IF o.desc = "replace" THEN (vdb \ {o.old_pkg}) \cup {o.pkg}
    ELSE vdb \cup {o.pkg}

\* i.finish()
Finish ==
    /\ pc = "finish"
    /\ \E ret \in {"True", "False", "BlockModification"} :
        /\ run' = [run EXCEPT !.finish = ret,
                              !.end = IF ret = "BlockModification" THEN "blocked" ELSE None]
        /\ faulted' = (faulted \/ ret # "True")
        \* out.error("Failed to merge ...") for BlockModification; ret is not read
        /\ diag' = IF ret = "BlockModification" THEN op.pkg ELSE diag
        /\ IF ret = "BlockModification"
           THEN FailOp("blocked") /\ vdb' = vdb
           ELSE /\ pc' = "world" /\ exit' = exit
                /\ vdb' = IF ret = "True" THEN Committed(op) ELSE vdb
    /\ UNCHANGED <<answer, call, solver, options, world_file, world_set, world, world0, frozen, atoms,
                   failures, plan, count, op, cleanup, pkg, unfired, refired, matches, idx>>

\* every installed package is recorded, requested or not
AddsToWorld_Any == ~options.oneshot /\ ~options.upgrade

\* the upgrade test inverted
AddsToWorld_Inverted ==
    /\ ~options.oneshot
    /\ \E i \in 1..Len(atoms) : Match(atoms[i], op.pkg)
    /\ options.upgrade

\* whether the op's package is recorded in the world set
AddsToWorld ==
    /\ ~options.oneshot
    /\ \E i \in 1..Len(atoms) : Match(atoms[i], op.pkg)
    /\ ~options.upgrade

\* the world set bookkeeping that ends the processing of an op
WorldUpdate ==
    /\ pc = "world"
    /\ LET atom == slotatom_if_slotted(SourceRepo, versioned_atom(op.pkg))
       IN  IF world_set # None /\ op.desc = "remove"
           THEN IF atom.raised # None
                THEN Return(atom.raised) /\ UNCHANGED <<world, run>>
                ELSE /\ world' = update_worldset(world_set, world, atom.value, TRUE)
                     /\ run' = [run EXCEPT !.world = "remove", !.end = "finished"]
                     /\ Continue("finished")
           ELSE IF world_set # None /\ AddsToWorld
           THEN IF atom.raised # None
                THEN Return(atom.raised) /\ UNCHANGED <<world, run>>
                ELSE /\ world' = update_worldset(world_set, world, atom.value, FALSE)
                     /\ run' = [run EXCEPT !.world = "add", !.end = "finished"]
                     /\ Continue("finished")
           ELSE /\ Continue("finished")
                /\ run' = [run EXCEPT !.end = "finished"]
                /\ world' = world
    /\ UNCHANGED <<diag, answer, call, solver, options, world_file, world_set, world0, vdb, frozen, atoms,
                   failures, plan, count, op, cleanup, pkg, unfired, refired, matches,
                   idx, faulted>>

\* a main that returns after the loop without the last drain
LoopEnd_NoDrain ==
    /\ pc = "loop"
    /\ count = Len(plan)
    /\ Return("0")
    /\ UNCHANGED <<diag, answer, call, solver, options, world_file, world_set, world, world0, vdb, frozen, atoms,
                   failures, plan, count, op, cleanup, pkg, run, unfired, refired,
                   matches, idx, faulted>>

\* the plan is exhausted: the list is drained once more and main returns 0
LoopEnd ==
    /\ pc = "loop"
    /\ count = Len(plan)
    /\ Drain(cleanup)
    /\ unfired' = UnfiredAfter(cleanup)
    /\ cleanup' = <<>>
    /\ Return("0")
    /\ UNCHANGED <<diag, answer, call, solver, options, world_file, world_set, world, world0, vdb, frozen, atoms,
                   failures, plan, count, op, pkg, run, matches, idx, faulted>>

(***************************************************************************)
(* unmerge and do_unmerge, and the clean mode that ends in do_unmerge.     *)
(***************************************************************************)
\* sorted(pkgs)
RECURSIVE Sorted(_)
Sorted(S) ==
    IF S = {} THEN <<>>
    ELSE LET first == CHOOSE x \in S : \A y \in S : Rank(x) <= Rank(y)
         IN  <<first>> \o Sorted(S \ {first})

\* a Failure raised under main: the unmerge branch catches it and returns 1,
\* the clean branch does not
RaiseFailure == Return(IF options.unmerge THEN "1" ELSE "Failure")

\* unmerge(), up to its prompt
\* an unmerge that lets a restriction match nothing
BadRestriction_Lenient(installed, r) ==
    Cardinality({x.cat : x \in RepoMatch(installed, r)}) > 1

\* the two raises in unmerge's loop over the restrictions: nothing matches,
\* or the matches are in more than one category
BadRestriction(installed, r) ==
    \/ RepoMatch(installed, r) = {}
    \/ Cardinality({x.cat : x \in RepoMatch(installed, r)}) > 1

Unmerge ==
    /\ pc = "unmerge"
    /\ LET restrictions == options.req.targets
           all_matches == UNION {RepoMatch(vdb, restrictions[i]) :
                                    i \in 1..Len(restrictions)}
       IN  IF \E i \in 1..Len(restrictions) : BadRestriction(vdb, restrictions[i])
           THEN Return("1") /\ matches' = matches
           ELSE /\ matches' = Sorted(all_matches)
                /\ IF Pretends THEN Return(None)
                   ELSE /\ pc' = (IF options.ask THEN "ask_unmerge" ELSE "do_unmerge")
                        /\ exit' = exit
    /\ UNCHANGED <<diag, answer, call, solver, options, world_file, world_set, world, world0, vdb, frozen, atoms,
                   failures, plan, count, op, cleanup, pkg, run, unfired, refired, idx,
                   faulted>>

\* formatter.ask("Would you like to unmerge these packages?")
AskUnmerge ==
    /\ pc = "ask_unmerge"
    /\ \E yes \in BOOLEAN :
        /\ answer' = (IF yes THEN "yes" ELSE "no")
        /\ IF yes THEN pc' = "do_unmerge" /\ exit' = exit ELSE Return(None)
    /\ UNCHANGED <<diag, call, solver, options, world_file, world_set, world, world0, vdb, frozen, atoms,
                   failures, plan, count, op, cleanup, pkg, run, unfired, refired,
                   matches, idx, faulted>>

\* resolver_inst.state.iter_ops(True): the ops of the plan that keep a package
iter_ops(p) == {p[i] : i \in {j \in 1..Len(p) : p[j].desc # "remove"}}

package_is_real(p) == p.cat # "virtual"

\* every installed package the plan does not keep, real or not
Wipes_Unfiltered(installed, p) ==
    Sorted(installed \ {x.pkg : x \in iter_ops(p)})

\* vset and wipes: the installed packages, less the packages of the ops of
\* the plan, the real ones of them, sorted
Wipes(installed, p) ==
    LET vset == installed \ {x.pkg : x \in iter_ops(p)}
    IN  Sorted({x \in vset : package_is_real(x)})

\* the clean mode of main, up to its prompt
Clean ==
    /\ pc = "clean"
    /\ LET wipes == Wipes(vdb, plan)
       IN  /\ matches' = wipes
           /\ IF Pretends THEN Return("0")
              ELSE /\ pc' = (IF options.ask THEN "ask_clean" ELSE "do_unmerge")
                   /\ exit' = exit
    /\ UNCHANGED <<diag, answer, call, solver, options, world_file, world_set, world, world0, vdb, frozen, atoms,
                   failures, plan, count, op, cleanup, pkg, run, unfired, refired, idx,
                   faulted>>

\* formatter.ask("Do you wish to proceed?", default_answer=False)
AskClean ==
    /\ pc = "ask_clean"
    /\ \E yes \in BOOLEAN :
        /\ answer' = (IF yes THEN "yes" ELSE "no")
        /\ IF yes THEN pc' = "do_unmerge" /\ exit' = exit ELSE Return("1")
    /\ UNCHANGED <<diag, call, solver, options, world_file, world_set, world, world0, vdb, frozen, atoms,
                   failures, plan, count, op, cleanup, pkg, run, unfired, refired,
                   matches, idx, faulted>>

\* do_unmerge, up to its loop
\* a do_unmerge that overrides a frozen vdb whatever the options say
Overrides_Always == TRUE

\* "if options.force:" under "if vdb.frozen:"
Overrides == options.force

DoUnmergeStart ==
    /\ pc = "do_unmerge"
    /\ IF frozen /\ ~Overrides
       THEN RaiseFailure /\ frozen' = frozen
       ELSE /\ frozen' = FALSE
            /\ pc' = "unmerging" /\ exit' = exit
    /\ UNCHANGED <<diag, answer, call, solver, options, world_file, world_set, world, world0, vdb, atoms,
                   failures, plan, count, op, cleanup, pkg, run, unfired, refired,
                   matches, idx, faulted>>

\* one pass of do_unmerge's loop
DoUnmergeStep ==
    /\ pc = "unmerging"
    /\ idx < Len(matches)
    /\ \E ret \in BOOLEAN :
        LET match == matches[idx + 1]
        IN  /\ vdb' = IF ret THEN vdb \ {match} ELSE vdb
            /\ faulted' = (faulted \/ ~ret)
            \* 'failed unmerging ' is written, or is the text of the Failure,
            \* which main writes only where it catches it
            /\ diag' = IF ret THEN NoPkg
                       ELSE IF options.ignore_failures \/ options.unmerge THEN match
                       ELSE NoPkg
            /\ IF ~ret /\ ~options.ignore_failures
               THEN RaiseFailure /\ UNCHANGED <<world, idx>>
               ELSE /\ world' = update_worldset(world_set, world, match, TRUE)
                    /\ idx' = idx + 1
                    /\ pc' = pc /\ exit' = exit
    /\ UNCHANGED <<answer, call, solver, options, world_file, world_set, world0, frozen, atoms, failures,
                   plan, count, op, cleanup, pkg, run, unfired, refired, matches>>

\* do_unmerge returns: unmerge mode ends in a bare return, clean mode in return 0
DoUnmergeEnd ==
    /\ pc = "unmerging"
    /\ idx = Len(matches)
    /\ Return(IF options.unmerge THEN None ELSE "0")
    /\ UNCHANGED <<diag, answer, call, solver, options, world_file, world_set, world, world0, vdb, frozen, atoms,
                   failures, plan, count, op, cleanup, pkg, run, unfired, refired,
                   matches, idx, faulted>>

(***************************************************************************)
(* The specification: one run of main.                                     *)
(***************************************************************************)
Next ==
    \/ Main_Start
    \/ Main_Atoms
    \/ AddAtomsOk
    \/ AddAtomsFail
    \/ SanityChecks
    \/ AskMerge
    \/ LoopNext
    \/ Fetch
    \/ Build
    \/ Localize
    \/ Apply
    \/ Finish
    \/ WorldUpdate
    \/ LoopEnd
    \/ Unmerge
    \/ AskUnmerge
    \/ Clean
    \/ AskClean
    \/ DoUnmergeStart
    \/ DoUnmergeStep
    \/ DoUnmergeEnd

Spec == Init /\ [][Next]_vars

\* main up to the end of the resolve loop; main is sequential code, and every
\* call it makes on the solver returns: a step that can be taken is taken
ResolveNext ==
    \/ Main_Start
    \/ Main_Atoms
    \/ AddAtomsOk
    \/ AddAtomsFail

ResolveSpec == Init /\ [][ResolveNext]_vars /\ WF_vars(ResolveNext)

(***************************************************************************)
(* update_worldset called on its own, again and again, on one world set.   *)
(***************************************************************************)
\* no run of main is under way
OutsideMain ==
    /\ options = None /\ world_file = None /\ vdb = {} /\ frozen = FALSE
    /\ atoms = <<>> /\ failures = <<>> /\ plan = <<>> /\ pc = None /\ exit = None
    /\ count = 0 /\ op = NoOp /\ cleanup = <<>> /\ pkg = NoPkg /\ run = NoRun
    /\ unfired = {} /\ refired = FALSE /\ faulted = FALSE /\ matches = <<>>
    /\ idx = 0 /\ solver = <<>> /\ answer = None
    /\ diag = NoPkg

main_vars == <<options, world_file, vdb, frozen, atoms, failures, plan, pc, exit, count,
               op, cleanup, pkg, run, unfired, refired, faulted, matches, idx, solver,
               answer, diag>>

\* the restrictions a world set may hold or be asked about
WorldAtoms == {versioned_atom(a1), versioned_atom(a2), versioned_atom(b1), atomA}

WorldSetInit ==
    /\ OutsideMain
    /\ world_set \in {"world", None}
    /\ world0 \in SUBSET WorldAtoms
    /\ world = [mem |-> world0, disk |-> world0, calls |-> {}]
    /\ call = NoCall

\* update_worldset(world_set, x, remove): call keeps the arguments, the members
\* before the call and what the call raised; world.calls is what this call
\* invoked on the set
CallUpdateWorldset ==
    \E x \in WorldAtoms, remove \in BOOLEAN :
        /\ call' = [fn |-> "update_worldset", pkg |-> x, remove |-> remove,
                    before |-> world.mem,
                    raised |-> update_worldset_raises(world_set, world, x, remove)]
        /\ world' = update_worldset(world_set, [world EXCEPT !.calls = {}], x, remove)
        /\ UNCHANGED <<main_vars, world_set, world0>>

WorldSetNext == CallUpdateWorldset

WorldSetSpec == WorldSetInit /\ [][WorldSetNext]_vars

(***************************************************************************)
(* display_failures(out, sequence, first_level, debug).  A trace is a       *)
(* sequence: a frame, then (pkg, steps) pairs; a step is a tagged tuple or  *)
(* a list, which is a trace again.  out is the formatter: its first_prefix *)
(* stack and the lines written, each with the depth of the stack it was    *)
(* written at.                                                             *)
(***************************************************************************)
StopIteration == "StopIteration"

Frame == [atom |-> atomA, mode |-> "depends"]

\* the steps that are no list: step[0], and step[1] or step[2] where read
TupleSteps ==
    { [tag |-> "reduce", ok |-> FALSE], [tag |-> "blocker", ok |-> FALSE],
      [tag |-> "cycle", ok |-> FALSE], [tag |-> "debug", ok |-> FALSE],
      [tag |-> "other", ok |-> FALSE] }
    \cup [tag : {"viable", "choice"}, ok : BOOLEAN]

\* a step that is a list
ListStep(t) == [tag |-> "list", trace |-> t]

\* the traces whose sub-traces nest at most n deep: the empty sequence, or a
\* frame and at most MaxPairs pairs of at most MaxSteps steps each
RECURSIVE Traces(_)
Traces(n) ==
    LET steps == TupleSteps \cup
                    (IF n = 0 THEN {} ELSE {ListStep(t) : t \in Traces(n - 1)})
        pairs == {[pkg |-> a1, steps |-> ss] : ss \in SeqsUpTo(steps, MaxSteps)}
    IN  {<<>>} \cup {<<Frame>> \o ps : ps \in SeqsUpTo(pairs, MaxPairs)}

\* out.first_prefix.append(x), out.first_prefix.pop(), out.write(text)
Push(out, x) == [out EXCEPT !.first_prefix = Append(@, x)]

Pop(out) == [out EXCEPT !.first_prefix = SubSeq(@, 1, Len(@) - 1)]

Write(out, text) ==
    [out EXCEPT !.lines = Append(@, [depth |-> Len(out.first_prefix), text |-> text])]

\* the chain of tests on a step that is no list
WriteStep(out, step, debug) ==
    IF step.tag \in {"reduce", "blocker", "cycle"} THEN Write(out, step.tag)
    ELSE IF step.tag = "viable" /\ ~step.ok THEN Write(out, "viable")
    ELSE IF step.tag = "choice" THEN (IF ~step.ok THEN Write(out, "choice") ELSE out)
    ELSE IF step.tag = "debug" THEN (IF debug THEN Write(out, "debug") ELSE out)
    ELSE Write(out, "step")

RECURSIVE display_failures(_, _, _, _), DisplayPairs(_, _, _), DisplaySteps(_, _, _)

\* the result as [raised, out]: out as the call left it, by return or by raise
display_failures(out, sequence, first_level, debug) ==
    IF sequence = <<>>
    THEN \* sequence.next() on an iterator that has nothing
         [raised |-> StopIteration, out |-> out]
    ELSE LET red == IF first_level
                    THEN Push(Push(Push(out, "fg(red)"), "!!!"), "reset")
                    ELSE out
             request == Write(Push(red, " "), "request")
             r == DisplayPairs(request, Tail(sequence), debug)
         IN  IF r.raised # None THEN r
             ELSE [raised |-> None,
                   out |-> IF first_level THEN Pop(Pop(Pop(Pop(r.out))))
                           ELSE Pop(r.out)]

\* for pkg, steps in sequence
DisplayPairs(out, pairs, debug) ==
    IF pairs = <<>> THEN [raised |-> None, out |-> out]
    ELSE LET r == DisplaySteps(Push(Write(out, "trying"), " "), pairs[1].steps, debug)
         IN  IF r.raised # None THEN r
             ELSE DisplayPairs(Pop(r.out), Tail(pairs), debug)

\* for step in steps
DisplaySteps(out, steps, debug) ==
    IF steps = <<>> THEN [raised |-> None, out |-> out]
    ELSE LET r == IF steps[1].tag = "list"
                  THEN display_failures(out, steps[1].trace, FALSE, debug)
                  ELSE [raised |-> None, out |-> WriteStep(out, steps[1], debug)]
         IN  IF r.raised # None THEN r
             ELSE DisplaySteps(r.out, Tail(steps), debug)

RenderInit ==
    /\ OutsideMain
    /\ world_set = None /\ world0 = {}
    /\ world = [mem |-> {}, disk |-> {}, calls |-> {}]
    /\ call = NoCall

\* display_failures called on a formatter whose stack holds nothing or one prefix
CallDisplayFailures ==
    /\ call = NoCall
    /\ \E sequence \in Traces(MaxNest), first_level \in BOOLEAN, debug \in BOOLEAN,
          first_prefix \in {<<>>, <<" ">>} :
        LET out == [first_prefix |-> first_prefix, lines |-> <<>>]
            r == display_failures(out, sequence, first_level, debug)
        IN  call' = [fn |-> "display_failures", sequence |-> sequence,
                     first_level |-> first_level, debug |-> debug,
                     before |-> out, raised |-> r.raised, out |-> r.out]
    /\ UNCHANGED <<main_vars, world_set, world, world0>>

RenderNext == CallDisplayFailures

RenderSpec == RenderInit /\ [][RenderNext]_vars

(***************************************************************************)
(* parse_atom called on its own, on any source repo and installed repo.    *)
(***************************************************************************)
n1 == Pkg("net", "a", "1", "0")

\* the packages a repo may hold: two versions of a key, two keys of a
\* category, a name in three categories, one of them virtual
ParsePkgs == {a1, a2, b1, n1, v1}

\* parserestrict.parse_match(token): an atom, a package name in any category,
\* a category, or anything
ParseTokens ==
    { atomA, versioned_atom(a1), atomZ, Restrict(None, "a", None, None),
      Restrict("dev", None, None, None), Restrict(None, None, None, None) }

ParseInit ==
    /\ OutsideMain
    /\ world_set = None /\ world0 = {}
    /\ world = [mem |-> {}, disk |-> {}, calls |-> {}]
    /\ call = NoCall

CallParseAtom ==
    /\ call = NoCall
    /\ \E restriction \in ParseTokens, repo \in SUBSET ParsePkgs,
          livefs_repos \in SUBSET ParsePkgs :
        LET r == parse_atom(restriction, repo, livefs_repos)
        IN  call' = [fn |-> "parse_atom", restriction |-> restriction, repo |-> repo,
                     livefs_repos |-> livefs_repos, raised |-> r.raised,
                     value |-> r.value, keys |-> r.keys, scanned |-> r.scanned,
                     isNone |-> r.isNone]
    /\ UNCHANGED <<main_vars, world_set, world, world0>>

ParseNext == CallParseAtom

ParseSpec == ParseInit /\ [][ParseNext]_vars

(***************************************************************************)
(* slotatom_if_slotted called on its own, over every repo of packages of   *)
(* two keys in two slots and restrictions with and without a slot.         *)
(***************************************************************************)
a3 == Pkg("dev", "a", "3", "1")
b2 == Pkg("dev", "b", "2", "1")

SlotPkgs == {a1, a2, a3, b1, b2}

SlotAtoms ==
    { Restrict("dev", "a", None, "0"), Restrict("dev", "a", None, "1"),
      Restrict("dev", "b", None, "0"), atomA, versioned_atom(a1) }

SlotInit == ParseInit

CallSlotatomIfSlotted ==
    /\ call = NoCall
    /\ \E repos \in SUBSET SlotPkgs, checkatom \in SlotAtoms :
        LET r == slotatom_if_slotted(repos, checkatom)
        IN  call' = [fn |-> "slotatom_if_slotted", repos |-> repos,
                     checkatom |-> checkatom, raised |-> r.raised,
                     value |-> r.value, scanned |-> r.scanned]
    /\ UNCHANGED <<main_vars, world_set, world, world0>>

SlotNext == CallSlotatomIfSlotted

SlotSpec == SlotInit /\ [][SlotNext]_vars

(***************************************************************************)
(* add_sets (src/pkgcore/ebuild/portage_conf.py) called on its own, on an  *)
(* empty config and any sets directory.  A config is a function from       *)
(* section names to the class of the section, None for no section.         *)
(***************************************************************************)
\* the sections add_sets defines before it reads the sets directory
BuiltinSets == {"world", "system", "installed", "versioned-installed"}

BuiltinClass(name) ==
    IF name = "world" THEN "pkgcore.pkgsets.filelist.WorldFile"
    ELSE IF name = "system" THEN "pkgcore.pkgsets.system.SystemSet"
    ELSE IF name = "installed" THEN "pkgcore.pkgsets.installed.Installed"
    ELSE "pkgcore.pkgsets.installed.VersionedInstalled"

FileList == "pkgcore.pkgsets.filelist.FileList"

\* the file names a sets directory may hold
SetFiles == BuiltinSets \cup {"kde", "gnome", "x11"}

\* a sets directory: listdir_files raises OSError with errno, or lists files
SetsDirs ==
    {[errno |-> e, files |-> {}] : e \in {"ENOENT", "EACCES"}}
        \cup {[errno |-> None, files |-> f] : f \in SUBSET SetFiles}

\* if setname in ("system", "world"): the file is ignored with a warning
Disallowed == {"system", "world"}

\* the result as [raised, config, warned]: the config after the call, what the
\* call raised, the files a warning was logged for
add_sets(dir) ==
    LET builtin == [n \in SetFiles |-> IF n \in BuiltinSets THEN BuiltinClass(n) ELSE None]
    IN  IF dir.errno # None
        THEN [raised |-> IF dir.errno = "ENOENT" THEN None ELSE "OSError",
              config |-> builtin, warned |-> {}]
        ELSE [raised |-> None,
              config |-> [n \in SetFiles |->
                            IF n \in dir.files \ Disallowed THEN FileList
                            ELSE builtin[n]],
              warned |-> dir.files \cap Disallowed]

SetsInit == ParseInit

CallAddSets ==
    /\ call = NoCall
    /\ \E dir \in SetsDirs :
        LET r == add_sets(dir)
        IN  call' = [fn |-> "add_sets", dir |-> dir, raised |-> r.raised,
                     config |-> r.config, warned |-> r.warned]
    /\ UNCHANGED <<main_vars, world_set, world, world0>>

SetsNext == CallAddSets

SetsSpec == SetsInit /\ [][SetsNext]_vars

(***************************************************************************)
(* Properties of the merge executor.                                       *)
(***************************************************************************)
\* main is inside the processing of the current op
PhasePcs == {"fetch", "build", "localize", "apply", "finish", "world"}

OpFailures == {"fetch failed", "build failed", "blocked"}

MergeMode == ~options.unmerge /\ ~options.clean

\* C1: while any phase of an op runs, every cleanup entry put on the list for
\* an earlier op has been invoked: the entries not yet invoked, if any, are
\* those of the op being processed.
C1_CleanupBeforeNextOp ==
    pc \in PhasePcs => \A e \in unfired : e.k = count

\* C1 witness: the second op is in a phase, and the first op left an entry
C1_Witness ==
    /\ count = 2 /\ pc = "fetch"
    /\ plan[1].desc = "replace"
    /\ unfired = {Entry(2, "op.pkg.release_cached_data")}

\* C2: when the loop ends, the entries of the final op are on the list and not
\* yet invoked; once main has returned 0 the list is empty and every entry has
\* been invoked, none of them twice.
C2_FinalDrain ==
    /\ pc = "loop" => (unfired = SeqToSet(cleanup) /\ ~refired)
    /\ (MergeMode /\ exit = "0") =>
          (count = Len(plan) /\ cleanup = <<>> /\ unfired = {} /\ ~refired)

\* C2 witness: main returned 0 after a final op that registered every kind of entry
C2_Witness ==
    /\ MergeMode /\ exit = "0" /\ count = Len(plan)
    /\ op.desc = "replace" /\ run.build = "built" /\ run.finish = "True"
    /\ unfired = {}

\* C3: the loop takes the ops one at a time in plan order: the position moves
\* by one step at a time, only when the processing of the previous op has ended,
\* to the next op of the plan, and every phase runs on the op at that position.
C3_Sequential ==
    /\ [](pc \in PhasePcs => (count \in 1..Len(plan) /\ op = plan[count]))
    /\ [][ /\ count' \in {count, count + 1}
           /\ count' = count + 1 =>
                /\ pc = "loop" /\ (count = 0 \/ run.end # None)
                /\ count' <= Len(plan) /\ op' = plan[count'] /\ run' = NoRun
           /\ pc \in PhasePcs => (op' = op /\ plan' = plan) ]_vars

\* C3 witness: the second op of a plan of two different ops is being finished
C3_Witness ==
    /\ count = 2 /\ pc = "finish" /\ plan[1] # plan[2]

\* C4: an op that is not a Remove is applied only after its fetch returned True,
\* its build (when there is one) finalized and localize ran, each phase after
\* the one before it; a Remove is applied and finished with no fetch, build or
\* localize.
C4_PhaseOrder ==
    /\ run.build # None => run.fetch = "True"
    /\ run.localize # None => run.build \in {"unsupported", "built"}
    /\ (run.apply # None /\ op.desc # "remove") =>
          /\ run.fetch = "True"
          /\ run.build \in {"unsupported", "built"}
          /\ run.localize = "localized"
          /\ run.apply = (IF op.desc = "replace" THEN "replace_pkg" ELSE "install_pkg")
    /\ run.finish # None => run.apply # None
    /\ run.world # None => run.finish \in {"True", "False"}
    /\ (pc \in PhasePcs \cup {"loop"} /\ op.desc = "remove") =>
          /\ run.fetch = None /\ run.build = None /\ run.localize = None
          /\ pc # "apply" => run.apply = "uninstall_pkg"

\* C4 witness: a replace went through every phase
C4_Witness ==
    /\ op.desc = "replace" /\ run.fetch = "True" /\ run.build = "built"
    /\ run.localize = "localized" /\ run.apply = "replace_pkg" /\ run.finish = "True"

\* C5: without ignore-failures, once a fetch has not succeeded, a build has
\* failed or finish() has raised BlockModification, main has returned 1; no
\* later op is taken.
C5_AbortOnFailure ==
    (~options.ignore_failures /\ run.end \in OpFailures) =>
        (pc = "done" /\ exit = "1" /\ op = plan[count])

\* C5 witness: finish() raised on an op that is not the last of the plan
C5_Witness ==
    /\ ~options.ignore_failures /\ run.end = "blocked"
    /\ count < Len(plan) /\ exit = "1"

\* C6: with ignore-failures, a fetch failure, a build failure or a
\* BlockModification ends the processing of that op only: no later phase of
\* the op runs, main goes on with the loop, and the loop ends only when the
\* plan is exhausted, with main returning 0.
C6_SkipOnFailure ==
    options.ignore_failures =>
        /\ run.end \in OpFailures =>
              /\ pc = "loop" \/ (pc = "done" /\ exit = "0")
              /\ run.world = None
              /\ run.end # "blocked" => (run.apply = None /\ run.finish = None)
              /\ run.end = "fetch failed" => (run.build = None /\ run.localize = None)
        /\ (count > 0 /\ pc = "done") => (exit = "0" /\ count = Len(plan))

\* C6 witness: a build failed on an op that is not the last, and the loop goes on
C6_Witness ==
    /\ options.ignore_failures /\ run.end = "build failed"
    /\ pc = "loop" /\ count < Len(plan) /\ ENABLED LoopNext

\* C7 as stated: after a fetch failure under ignore-failures nothing is
\* installed and no cleanup entry of the skipped op is ever invoked.
C7_NoCleanupForSkipped ==
    /\ []((options.ignore_failures /\ run.end = "fetch failed") => run.apply = None)
    /\ [][ (options.ignore_failures /\ run.end = "fetch failed") =>
              \A e \in unfired : e.k = count => e \in unfired' ]_vars

\* C7 amended: after a fetch failure under ignore-failures no build, localize,
\* install or finish is attempted for the op; the one cleanup entry of the op,
\* the release of its package's cached data registered before the fetch, is
\* invoked exactly once by the next drain (at the top of the next iteration
\* or after the loop), and no other entry is invoked for it.
C7_SkippedReleasesOnly ==
    /\ []((options.ignore_failures /\ run.end = "fetch failed") =>
            /\ run.build = None /\ run.localize = None
            /\ run.apply = None /\ run.finish = None /\ run.world = None
            /\ pc = "loop" =>
                  /\ cleanup = <<Entry(count, "op.pkg.release_cached_data")>>
                  /\ unfired = {Entry(count, "op.pkg.release_cached_data")}
            /\ pc = "done" => (exit = "0" /\ unfired = {} /\ ~refired))
    /\ [][ (options.ignore_failures /\ run.end = "fetch failed" /\ pc = "loop") =>
              /\ unfired \ unfired' = {Entry(count, "op.pkg.release_cached_data")}
              /\ ~refired' ]_vars

\* C7 witness: the fetch of the last op failed, and the final drain has run
C7_Witness ==
    /\ options.ignore_failures /\ run.end = "fetch failed"
    /\ pc = "done" /\ exit = "0" /\ unfired = {}

\* the atoms the user asked for: the target tokens and the members of the sets
Requested == SeqToSet(options.req.targets) \cup SeqToSet(options.req.set)

\* C8: the world set's add is called for an op only when the op is an Install
\* or a Replace, world tracking is on (a world set is configured and the run
\* is not oneshot), the run is not an upgrade run and the op's package matches
\* one of the atoms the run was asked for; a package no requested atom matches
\* (a dependency) is never added.
C8_AddOnlyRequested ==
    /\ run.world = "add" =>
          /\ op.desc \in {"add", "replace"}
          /\ world_file # None /\ world_set # None
          /\ ~options.oneshot /\ ~options.upgrade
          /\ \E i \in 1..Len(atoms) : atoms[i] \in Requested /\ Match(atoms[i], op.pkg)
    /\ (MergeMode /\ ~\E r \in Requested : \E o \in SeqToSet(plan) :
            o.desc # "remove" /\ Match(r, o.pkg)) => world.mem \subseteq world0

\* C8 witness: a requested package has just been added to the world set
C8_Witness ==
    /\ run.world = "add"
    /\ versioned_atom(op.pkg) \in world.mem \ world0
    /\ \E o \in SeqToSet(plan) : \A r \in Requested : ~Match(r, o.pkg)

\* the ops of the plan are all Installs of packages some atom of the run matches
AllRequestedInstalls ==
    \A i \in 1..Len(plan) :
        /\ plan[i].desc = "add"
        /\ \E j \in 1..Len(atoms) : Match(atoms[j], plan[i].pkg)

C10_OneshotFrame ==
    options.oneshot => world = [mem |-> world0, disk |-> world0, calls |-> {}]

\* C10 witness: a oneshot run has committed the Remove of a package that the
\* world set holds
C10_Witness ==
    /\ options.oneshot /\ world_file # None
    /\ op.desc = "remove" /\ run.finish = "True" /\ run.end = "finished"
    /\ versioned_atom(op.pkg) \in world0

(***************************************************************************)
(* Properties of the calls on the world set.                               *)
(***************************************************************************)
\* the slot-normalized atom of a package
SlotAtomOf(p) == slotatom_if_slotted(SourceRepo, versioned_atom(p)).value

\* C11: every Remove, the one of the executor loop and the one of a pass of
\* do_unmerge's loop, leaves the world set as update_worldset leaves it when
\* called with remove=True and the slot-normalized atom of the removed package.
C11_RemoveUsesSlotAtom ==
    [][ /\ (pc = "world" /\ op.desc = "remove" /\ pc' = "loop") =>
              world' = update_worldset(world_set, world, SlotAtomOf(op.pkg), TRUE)
        /\ (pc = "unmerging" /\ idx' = idx + 1) =>
              world' = update_worldset(world_set, world, SlotAtomOf(matches[idx + 1]), TRUE)
      ]_vars

\* C12: update_worldset with remove=True for a restriction the world set does
\* not hold raises nothing, leaves the members in memory and on disk as they
\* were and calls remove only, never flush.
C12_RemoveAbsent ==
    (call.fn = "update_worldset" /\ call.remove /\ call.pkg \notin call.before) =>
        /\ call.raised = None
        /\ world.mem = call.before /\ world.disk = call.before
        /\ world.calls \subseteq {"remove"}

\* C12 witness: remove was called for a restriction a non-empty set does not hold
C12_Witness ==
    /\ call.fn = "update_worldset" /\ call.remove /\ call.pkg \notin call.before
    /\ call.before # {} /\ world.calls = {"remove"} /\ world.mem = call.before

C14_FlushedSynchronously ==
    /\ world.disk = world.mem
    /\ world.mem # world0 => "flush" \in world.calls

\* C14 witness: between two ops of the plan, after an add that changed the set
C14_Witness ==
    /\ pc = "loop" /\ count = 1 /\ Len(plan) = 2 /\ run.world = "add"
    /\ world.mem # world0 /\ world.disk = world.mem

(***************************************************************************)
(* Properties of the resolve loop.                                         *)
(***************************************************************************)
\* C15: every pass of the resolve loop makes the list of atoms strictly
\* shorter, and with ignore-failures the loop is left whatever the solver
\* answers.
C15_ResolveTerminates ==
    /\ [][ (pc = "resolve" /\ pc' = "resolve") => Len(atoms') < Len(atoms) ]_vars
    /\ (options.ignore_failures /\ pc = "resolve") ~> (pc # "resolve")

\* C15 witness: the solver failed twice and is asked a third time, for no atom
C15_Witness ==
    /\ options.ignore_failures /\ pc = "resolve"
    /\ Len(failures) = 2 /\ atoms = <<>>

\* C16: without ignore-failures, once the solver has reported a failure main
\* has returned 1 after one call of add_atoms and no other call on the solver;
\* nothing was selected for removal, no op of a plan was started, and the
\* installed packages and the world set are those of the start.
C16_FatalFailure ==
    (~options.ignore_failures /\ failures # <<>>) =>
        /\ pc = "done" /\ exit = "1"
        /\ solver = <<"add_atoms">> /\ Len(failures) = 1
        /\ plan = <<>> /\ count = 0 /\ op = NoOp /\ run = NoRun
        /\ matches = <<>> /\ idx = 0
        /\ vdb = InitialVdb
        /\ world = [mem |-> world0, disk |-> world0, calls |-> {}]

\* C16 witness: the solver failed on the second of two atoms
C16_Witness ==
    /\ ~options.ignore_failures /\ exit = "1"
    /\ Len(atoms) = 2 /\ failures = <<atoms[2]>>

\* C17: with ignore-failures, a pass of the resolve loop records the failing
\* restriction, takes it (and nothing else) off the list of atoms, and calls
\* reset and then add_atoms on the solver; in the solver's calls no add_atoms
\* follows an add_atoms, and every reset stands between two add_atoms.
C17_ResetBetweenRetries ==
    /\ [](options.ignore_failures =>
            \A i \in 1..Len(solver) :
                /\ (solver[i] = "add_atoms" /\ i < Len(solver)) =>
                      solver[i + 1] \in {"reset", "free_caches"}
                /\ solver[i] = "reset" =>
                      /\ i > 1 /\ solver[i - 1] = "add_atoms"
                      /\ i < Len(solver) /\ solver[i + 1] = "add_atoms")
    /\ [][ (options.ignore_failures /\ pc = "resolve" /\ failures' # failures) =>
              /\ pc' = "resolve"
              /\ \E r \in SeqToSet(atoms) :
                    /\ failures' = Append(failures, r)
                    /\ atoms' = SelectSeq(atoms, LAMBDA x : x # r)
                    /\ r \notin SeqToSet(atoms')
              /\ solver' = solver \o <<"reset", "add_atoms">> ]_vars

\* C17 witness: two failures, each followed by a reset and a new add_atoms
C17_Witness ==
    /\ options.ignore_failures /\ Len(failures) = 2
    /\ solver = <<"add_atoms", "reset", "add_atoms", "reset", "add_atoms">>

(***************************************************************************)
(* Properties of display_failures.                                         *)
(***************************************************************************)
\* every trace and sub-trace of t starts with a frame
RECURSIVE Framed(_)
Framed(t) ==
    /\ t # <<>>
    /\ \A i \in 2..Len(t) : \A j \in 1..Len(t[i].steps) :
          t[i].steps[j].tag = "list" => Framed(t[i].steps[j].trace)

\* C18: for every trace, the empty one included, and for first_level true and
\* false, display_failures returns, and the stack of prefixes is then as deep
\* as it was before the call.
C18_PrefixBalanced ==
    call.fn = "display_failures" =>
        /\ call.raised = None
        /\ Len(call.out.first_prefix) = Len(call.before.first_prefix)

\* the part of C18 that holds: a call that returns leaves the stack as it
\* found it, and the call returns when every trace and sub-trace has a frame;
\* on the empty trace the call raises before it touches the stack
PrefixBalancedOnReturn ==
    call.fn = "display_failures" =>
        /\ call.raised = None => call.out.first_prefix = call.before.first_prefix
        /\ Framed(call.sequence) => call.raised = None
        /\ call.sequence = <<>> => (call.raised = StopIteration /\ call.out = call.before)

(***************************************************************************)
(* Properties of parse_atom.                                               *)
(***************************************************************************)
\* the keys of the packages of a repo that the call's restriction matches
MatchedKeys(repo) == {Key(p) : p \in {q \in repo : Match(call.restriction, q)}}

C21_NarrowedKeyIsCandidate ==
    (call.fn = "parse_atom" /\ call.raised = None
        /\ Cardinality(MatchedKeys(call.repo)) >= 2) =>
        [cat |-> call.value.rcat, name |-> call.value.rname]
            \in MatchedKeys(call.repo)

\* C22: when the restriction matches packages of exactly one key in the
\* source repo, parse_atom returns having matched the source repo only, and a
\* restriction that is an atom is returned as it was given.
C22_SingleKeyNoInstalledScan ==
    (call.fn = "parse_atom" /\ Cardinality(MatchedKeys(call.repo)) = 1) =>
        /\ call.raised = None
        /\ call.scanned = <<"repo">>
        /\ call.restriction.kind = "atom" => call.value = call.restriction
        /\ \A k \in MatchedKeys(call.repo) :
              call.restriction.kind # "atom" =>
                  call.value = KeyedAndRestriction(call.restriction, k)

\* C22 witness: an atom of one key in the repo, with installed packages of
\* another key that match a looser reading of the token
C22_Witness ==
    /\ call.fn = "parse_atom" /\ call.restriction = atomA
    /\ call.repo = {a1, a2} /\ call.livefs_repos = {a1, n1}
    /\ call.raised = None /\ call.value = atomA

(***************************************************************************)
(* Properties of slotatom_if_slotted, over SlotSpec.                       *)
(***************************************************************************)
\* the slots in which the repos hold packages of the key of checkatom
SlotsOfKey(repos, checkatom) ==
    {p.slot : p \in {q \in repos : q.cat = checkatom.rcat /\ q.name = checkatom.rname}}

\* C23: for a restriction pinning slot 0, against repos whose packages of
\* that key are all in one slot, slotatom_if_slotted returns the atom of the
\* key without a slot.
C23_OneSlotDropsSlot ==
    (call.fn = "slotatom_if_slotted" /\ call.checkatom.rslot = "0"
        /\ Cardinality(SlotsOfKey(call.repos, call.checkatom)) = 1) =>
        /\ call.raised = None
        /\ call.value = KeyAtom(call.checkatom.rcat, call.checkatom.rname)

\* C24: for a restriction pinning slot 0, against repos whose packages of
\* that key are in two or more slots, slotatom_if_slotted returns the
\* restriction as given; a restriction with no slot, or with another slot, is
\* returned as given without matching it against the repos.
C24_ManySlotsUnchanged ==
    call.fn = "slotatom_if_slotted" =>
        /\ (call.checkatom.rslot = "0"
              /\ Cardinality(SlotsOfKey(call.repos, call.checkatom)) >= 2) =>
                (call.raised = None /\ call.value = call.checkatom)
        /\ (call.checkatom.rslot = None \/ call.checkatom.rslot # "0") =>
                (call.raised = None /\ call.value = call.checkatom /\ ~call.scanned)

\* the half of C24 the code keeps: no slot, or another slot than 0
UnslottedUnchanged ==
    (call.fn = "slotatom_if_slotted"
        /\ (call.checkatom.rslot = None \/ call.checkatom.rslot # "0")) =>
        (call.raised = None /\ call.value = call.checkatom /\ ~call.scanned)

(***************************************************************************)
(* Properties of the clean mode and of the gates of a run, over Spec.      *)
(***************************************************************************)
\* C25: in clean mode the packages to remove are the installed packages,
\* less the packages of the plan's ops other than remove, that are real: each
\* of them once, whether the run then stops at pretend, asks or removes.
C25_CleanRemovalSet ==
    (options.clean /\ (pc \in {"ask_clean", "do_unmerge"}
                          \/ (options.pretend /\ exit = "0"))) =>
        /\ SeqToSet(matches) =
              {x \in InitialVdb :
                  /\ x.cat # "virtual"
                  /\ ~\E i \in 1..Len(plan) :
                        plan[i].desc # "remove" /\ plan[i].pkg = x}
        /\ Len(matches) = Cardinality(SeqToSet(matches))

\* C25 witness: of the installed a1, b1 and the virtual v1 the plan keeps b1,
\* and a1 alone is to be removed
C25_Witness ==
    /\ options.clean /\ pc = "do_unmerge" /\ vdb = {a1, b1, v1}
    /\ \E i \in 1..Len(plan) : plan[i].desc # "remove" /\ plan[i].pkg = b1
    /\ matches = <<a1>>

\* C26: in clean mode, once the solver has reported a failure, no installed
\* package is removed in the rest of the run, with ignore-failures or
\* without it.
C26_NoCleanAfterFailure ==
    (options.clean /\ failures # <<>>) =>
        (vdb = InitialVdb /\ pc \notin {"do_unmerge", "unmerging"})

\* C27: in a run with pretend, and in a run whose prompt was answered no, at
\* every point nothing has been fetched, built, installed, replaced or
\* removed and the world set is as it was: the executor loop and do_unmerge
\* are never entered.
C27_GateNoMutation ==
    (options.pretend \/ answer = "no") =>
        /\ vdb = InitialVdb
        /\ world = [mem |-> world0, disk |-> world0, calls |-> {}]
        /\ count = 0 /\ op = NoOp /\ run = NoRun /\ cleanup = <<>>
        /\ idx = 0
        /\ pc \notin PhasePcs \cup {"loop", "do_unmerge", "unmerging"}

\* C27 witness: a merge with a plan of two ops was asked about and declined
C27_Witness ==
    /\ ~options.unmerge /\ ~options.clean /\ ~options.pretend
    /\ Len(plan) = 2 /\ answer = "no" /\ pc = "done"

\* a pretend run of each mode ends with its plan or matches listed
PretendEnds ==
    /\ options.pretend /\ pc = "done"
    /\ plan # <<>> \/ matches # <<>>

\* C28: a run whose prompt was answered no returns 1.
C28_DeclineExitsOne == answer = "no" => exit = "1"

\* C29: when main parses its targets and one of them matches no package of
\* the source repos while a configured set has that name, main returns 2.
C29_SetNameExitsTwo ==
    [][(pc = "atoms"
          /\ \E i \in 1..Len(options.req.targets) :
                /\ RepoMatch(SourceRepo, options.req.targets[i]) = {}
                /\ options.req.targets[i] \in config_pkgset)
         => exit' = "2"]_vars

\* C30: in a run with fetchonly nothing is built, installed, replaced or
\* removed for any op of the plan, and the world set stays as it was.
C30_FetchOnlyFetches ==
    options.fetchonly =>
        /\ pc \notin {"build", "localize", "apply", "finish", "world"}
        /\ vdb = InitialVdb
        /\ world = [mem |-> world0, disk |-> world0, calls |-> {}]

\* the part of C30 the code keeps: the ops other than remove are fetched and
\* no more
FetchOnlyFetchesAdds ==
    (options.fetchonly /\ op.desc # "remove") =>
        /\ pc \notin {"build", "localize", "apply", "finish", "world"}
        /\ run.build = None /\ run.apply = None /\ run.world = None

\* C31: in a run given a package set with -s, no Install or Replace adds a
\* package to the world set: the world set keeps the members it started with.
C31_SetForcesOneshot ==
    (MergeMode /\ options.req.set # <<>>) =>
        (run.world # "add" /\ world.mem \subseteq world0)

\* C32: a run of the unmerge or the clean mode that comes to remove packages
\* from a frozen vdb without force ends with exit code 1, and no run ends
\* with a Failure leaving main.
C32_AbortHandled ==
    /\ (pc = "done" /\ (options.unmerge \/ options.clean)
          /\ frozen /\ ~options.force /\ ~options.pretend /\ answer # "no")
            => exit = "1"
    /\ exit # "Failure"

\* the part of C32 the code keeps: the unmerge mode answers a restriction
\* that matches nothing, and a frozen vdb, with exit code 1
UnmergeAbortHandled ==
    (pc = "done" /\ options.unmerge
        /\ \/ \E i \in 1..Len(options.req.targets) :
                 RepoMatch(InitialVdb, options.req.targets[i]) = {}
           \/ frozen /\ ~options.force /\ ~options.pretend /\ answer # "no")
        => exit = "1"

\* C33: when the processing of an op has ended after its fetch, its build or
\* its finish failed, and when do_unmerge has gone past a match whose finish
\* failed, a diagnostic naming that package has been written.
C33_FailureDiagnosed ==
    /\ (run.end \in OpFailures \/ (run.end = "finished" /\ run.finish # "True"))
          => diag = op.pkg
    /\ (pc = "unmerging" /\ idx > 0 /\ matches[idx] \in vdb)
          => diag = matches[idx]

\* the part of C33 the code keeps: every failure but a finish() that returns
\* a false result in the executor loop
SkipsDiagnosed ==
    /\ run.end \in OpFailures => diag = op.pkg
    /\ (pc = "unmerging" /\ idx > 0 /\ matches[idx] \in vdb)
          => diag = matches[idx]

\* C34: do_unmerge on a frozen vdb without force raises with the vdb frozen
\* and nothing removed; otherwise it leaves the vdb unfrozen and enters its
\* loop, which removes the matches from the first on, one per pass.
C34_FrozenNeedsForce ==
    /\ [][(pc = "do_unmerge" /\ frozen /\ ~options.force) =>
            (pc' = "done" /\ exit' \in {"1", "Failure"} /\ frozen'
               /\ vdb' = vdb /\ idx' = 0 /\ world' = world)]_vars
    /\ [][(pc = "do_unmerge" /\ (~frozen \/ options.force)) =>
            (pc' = "unmerging" /\ ~frozen' /\ vdb' = vdb /\ idx' = 0)]_vars
    /\ [][(pc = "unmerging" /\ idx' # idx) =>
            (idx' = idx + 1 /\ vdb \ vdb' \subseteq {matches[idx']}
               /\ (matches[idx'] \in vdb' => faulted'))]_vars
    /\ [](pc = "unmerging" => ~frozen)
    /\ []((options.unmerge \/ options.clean) =>
            InitialVdb \ vdb \subseteq {matches[i] : i \in 1..idx})

\* C34 witness: the unmerge mode came to do_unmerge with matches and a frozen
\* vdb, without force, and failed
C34_Witness ==
    /\ options.unmerge /\ ~options.force /\ frozen /\ ~options.pretend
    /\ answer # "no" /\ matches # <<>> /\ pc = "done" /\ exit = "1"
    /\ vdb = InitialVdb

\* with force, a vdb that was frozen has had its matches removed
ForcedUnmerge ==
    /\ options.unmerge /\ options.force /\ ~frozen /\ pc = "done"
    /\ matches # <<>> /\ \A i \in 1..Len(matches) : matches[i] \notin vdb

\* C35: in the unmerge mode, when one of the restrictions matches no
\* installed package, or installed packages of more than one category, the
\* run fails with nothing removed and the world set as it was, whatever the
\* restrictions before it match.
C35_ValidatesBeforeRemoving ==
    (options.unmerge /\ \E i \in 1..Len(options.req.targets) :
        LET found == RepoMatch(InitialVdb, options.req.targets[i])
        IN  found = {} \/ Cardinality({x.cat : x \in found}) > 1) =>
        /\ vdb = InitialVdb /\ idx = 0 /\ matches = <<>>
        /\ world = [mem |-> world0, disk |-> world0, calls |-> {}]
        /\ pc \in {"start", "unmerge", "done"}
        /\ pc = "done" => exit = "1"

\* C35 witness: the first restriction matches an installed package, the
\* second none, and unmerge has failed
C35_Witness ==
    /\ options.unmerge /\ options.req.targets = <<atomA, atomZ>>
    /\ world_set # None /\ pc = "done" /\ exit = "1" /\ a1 \in vdb

\* a restriction by name alone that matches installed packages of two
\* categories, after a restriction that matches one package
MultiCategoryRefused ==
    /\ options.unmerge /\ Len(options.req.targets) = 2
    /\ Cardinality({x.cat : x \in RepoMatch(vdb, options.req.targets[2])}) = 2
    /\ world_set # None /\ pc = "done" /\ exit = "1"

\* C36: the world set's add or remove is called for an op of the executor
\* loop only when the op's finish() returned a true result, and a pass of
\* do_unmerge whose finish() failed leaves the members of the world set as
\* they were.
C36_WorldAfterCommit ==
    /\ [](run.world # None => run.finish = "True")
    /\ [][(pc = "unmerging" /\ idx' = idx + 1 /\ matches[idx'] \in vdb') =>
            world'.mem = world.mem]_vars

\* the part of C36 the code keeps: an op whose finish() raised
\* BlockModification never reaches the world set
BlockedSkipsWorld ==
    run.finish = "BlockModification" => (run.world = None /\ pc # "world")

\* C37: when main has returned, every entry that was put on the cleanup list
\* has been invoked, and none twice, whatever the exit code.
C37_CleanupOnEveryExit ==
    /\ pc = "done" => unfired = {}
    /\ ~refired

\* the part of C37 the code keeps: a run that returns 0 has invoked every
\* entry, and no entry is ever invoked twice
CleanupOnReturnZero ==
    /\ (pc = "done" /\ exit = "0") => unfired = {}
    /\ ~refired

(***************************************************************************)
(* Properties of add_sets, over SetsSpec.                                  *)
(***************************************************************************)
\* C38: after add_sets the sections world, system, installed and
\* versioned-installed are the built-in ones, whatever the sets directory
\* holds.
C38_BuiltinSetsKept ==
    call.fn = "add_sets" =>
        \A n \in BuiltinSets : call.config[n] = BuiltinClass(n)

\* the part of C38 the code keeps: world and system are the built-in ones,
\* and a file of either name is warned about
WorldAndSystemKept ==
    call.fn = "add_sets" =>
        /\ \A n \in {"world", "system"} : call.config[n] = BuiltinClass(n)
        /\ call.warned = call.dir.files \cap {"world", "system"}

====
